---- MODULE Spec2Model ----
\* WaniWords: the word-list filters of WaniKaniHandler (src/wanikani.py) and
\* the corpus reconciliation loops of generate_frequency_list_file
\* (src/waniwords_utility.py).
\*
\* A character is a string naming one code point ("shoku" for U+98DF, "be" for
\* U+3079, ...); a Python str is the sequence of its characters, so a word such
\* as taberu is <<"shoku", "be", "ru">> and the empty str is << >>.
EXTENDS Integers, Sequences, FiniteSets, TLC

\* ---------------------------------------------------------------- bounds
MaxWords == 3          \* length of the word list handed to a filter
MaxNltLines == 3       \* lines of the NLT corpus file
MaxBccwjLines == 2     \* lines of the BCCWJ corpus file

\* ------------------------------------------------------- python built-ins
\* x in list
In(x, list) == \E n \in 1..Len(list) : list[n] = x

\* needle in haystack, for two str: needle occurs as a contiguous substring
StrIn(needle, haystack) ==
    \E s \in 0..(Len(haystack) - Len(needle)) :
        \A n \in 1..Len(needle) : haystack[s + n] = needle[n]

\* str[-2:]
LastTwo(str) == IF Len(str) <= 2 THEN str ELSE SubSeq(str, Len(str) - 1, Len(str))

\* str[:-2]
DropLastTwo(str) == IF Len(str) <= 2 THEN << >> ELSE SubSeq(str, 1, Len(str) - 2)

WHITESPACE == {" ", "\\n"}

RECURSIVE LStrip(_)
LStrip(str) ==
    IF str # << >> /\ Head(str) \in WHITESPACE THEN LStrip(Tail(str)) ELSE str

RECURSIVE RStrip(_)
RStrip(str) ==
    IF str # << >> /\ str[Len(str)] \in WHITESPACE
    THEN RStrip(SubSeq(str, 1, Len(str) - 1))
    ELSE str

\* str.strip()
Strip(str) == RStrip(LStrip(str))

\* ------------------------------------------------------------- constants
\* The kana of KANA_LIST that occur in the modelled alphabet, in list order.
KANA_LIST == <<"i", "su", "ta", "nu", "ha", "be", "mu", "ru", "n">>

_NLT_BLACKLISTED_WORD_TYPES ==
    << <<"jo", "shi">>, <<"jo", "dou", "shi">>,
       <<"dou", "shi", "-", "setsu", "bi">>, <<"ki", "gou">> >>
_BCCWJ_BLACKLISTED_WORD_TYPES == << <<"setsu", "bi", "ji">> >>
_BLACKLISTED_SYMBOLS == << <<"*">>, <<"%">>, <<"m">>, <<"g">>, <<"8">>, <<"[">> >>
NLT_WORD_CAP == 51000
BCCWJ_WORD_CAP == 70000
SURU == <<"su", "ru">>

\* ================================================================ filters
VARIABLES
    data_dictionary,     \* self._data_dictionary
    list_of_words,       \* the caller's list object passed to a filter
    called,              \* the method called last, "none" before any call
    invert_filter,       \* the invert_filter argument of that call
    new_list_of_words,   \* the list object allocated by a filter call
    known_list,          \* the list object allocated by a get_known_* call
    returned             \* what the call handed back: "none" before any call,
                         \* "None", the name of the returned list object, or
                         \* "KeyError"

\* ============================================================= reconciler
VARIABLES
    pc,                          \* position in generate_frequency_list_file
    nlt_database_file,           \* the lines of the NLT file, split on ','
    bccwj_database_file,         \* the lines of the BCCWJ file, split on tab
    file_pos,                    \* lines of the open file already read
    word_count,
    list_of_entries,
    list_of_blacklisted_entries,
    entry_index,                 \* entries of list_of_entries already merged
    list_of_candidates           \* list_of_words of lines 73-86

filter_vars == <<data_dictionary, list_of_words, called, invert_filter,
                 new_list_of_words, known_list, returned>>
reconcile_vars == <<pc, nlt_database_file, bccwj_database_file, file_pos,
                    word_count, list_of_entries, list_of_blacklisted_entries, entry_index,
                    list_of_candidates>>
vars == <<data_dictionary, list_of_words, called, invert_filter,
          new_list_of_words, known_list, returned, pc, nlt_database_file,
          bccwj_database_file, file_pos, word_count, list_of_entries,
          list_of_blacklisted_entries, entry_index, list_of_candidates>>

\* ------------------------------------------------------ known-set lookup
KeyError == [raised |-> TRUE, value |-> << >>]
Return(v) == [raised |-> FALSE, value |-> v]

\* for lesson_id in assignments: known.append(subjects[lesson_id])
\* assignments is the key sequence of the assignment dict in iteration order.
\* ProjectLoop with subjects.get(lesson_id): an absent id is skipped.
RECURSIVE ProjectLoop_SkipAbsent(_, _, _)
ProjectLoop_SkipAbsent(assignments, subjects, known) ==
    IF assignments = << >> THEN Return(known)
    ELSE ProjectLoop_SkipAbsent(Tail(assignments), subjects,
            IF Head(assignments) \in DOMAIN subjects
            THEN Append(known, subjects[Head(assignments)]) ELSE known)

RECURSIVE ProjectLoop(_, _, _)
ProjectLoop(assignments, subjects, known) ==
    IF assignments = << >> THEN Return(known)
    ELSE IF Head(assignments) \notin DOMAIN subjects THEN KeyError
    ELSE ProjectLoop(Tail(assignments), subjects,
                     Append(known, subjects[Head(assignments)]))

get_known_kanji_list(d) ==
    IF "user_kanji_assignments" \notin DOMAIN d THEN KeyError
    ELSE IF d["user_kanji_assignments"] = << >> THEN Return(<< >>)
    ELSE IF "all_kanji_subjects" \notin DOMAIN d THEN KeyError
    ELSE ProjectLoop(d["user_kanji_assignments"], d["all_kanji_subjects"], << >>)

get_known_vocabulary_list(d) ==
    IF "user_vocabulary_assignments" \notin DOMAIN d THEN KeyError
    ELSE IF d["user_vocabulary_assignments"] = << >> THEN Return(<< >>)
    ELSE IF "all_vocabulary_subjects" \notin DOMAIN d THEN KeyError
    ELSE ProjectLoop(d["user_vocabulary_assignments"],
                     d["all_vocabulary_subjects"], << >>)

\* ---------------------------------------------------------------- filters
\* The inner loop "for character in word: if character not in
\* known_characters: break": TRUE when it ends without break, so that the
\* loop's else clause runs.
RECURSIVE LoopElse(_, _)
LoopElse(word, known_characters) ==
    IF word = << >> THEN TRUE
    ELSE IF ~In(Head(word), known_characters) THEN FALSE
    ELSE LoopElse(Tail(word), known_characters)

\* for word in words: if bool(word not in known_vocabulary) ^ invert_filter
\* KnownWordsLoop with insert(0, word) for append.
RECURSIVE KnownWordsLoop_Prepend(_, _, _, _)
KnownWordsLoop_Prepend(words, known_vocabulary, invert, acc) ==
    IF words = << >> THEN acc
    ELSE KnownWordsLoop_Prepend(Tail(words), known_vocabulary, invert,
            IF (~In(Head(words), known_vocabulary)) # invert
            THEN <<Head(words)>> \o acc ELSE acc)

RECURSIVE KnownWordsLoop(_, _, _, _)
KnownWordsLoop(words, known_vocabulary, invert, acc) ==
    IF words = << >> THEN acc
    ELSE KnownWordsLoop(Tail(words), known_vocabulary, invert,
            IF (~In(Head(words), known_vocabulary)) # invert
            THEN Append(acc, Head(words)) ELSE acc)

filter_out_known_words(d, words, invert) ==
    LET known_vocabulary == get_known_vocabulary_list(d)
    IN  IF known_vocabulary.raised THEN KeyError
        ELSE Return(KnownWordsLoop(words, known_vocabulary.value, invert, << >>))

\* The outer loop whose else clause appends (lines 219-224 and 257-262).
RECURSIVE AppendInElseLoop(_, _, _)
AppendInElseLoop(words, known_characters, acc) ==
    IF words = << >> THEN acc
    ELSE AppendInElseLoop(Tail(words), known_characters,
            IF LoopElse(Head(words), known_characters)
            THEN Append(acc, Head(words)) ELSE acc)

\* The outer loop whose else clause continues and which appends after a
\* break (lines 227-233 and 248-254).
\* ContinueInElseLoop without the else clause: every word is appended.
ContinueInElseLoop_NoElse(words, known_characters, acc) == acc \o words

RECURSIVE ContinueInElseLoop(_, _, _)
ContinueInElseLoop(words, known_characters, acc) ==
    IF words = << >> THEN acc
    ELSE ContinueInElseLoop(Tail(words), known_characters,
            IF LoopElse(Head(words), known_characters)
            THEN acc ELSE Append(acc, Head(words)))

\* filter_out_unknown_kanji with the bodies of its two branches exchanged.
filter_out_unknown_kanji_Swapped(d, words, invert) ==
    LET known_kanji == get_known_kanji_list(d)
    IN  IF known_kanji.raised THEN KeyError
        ELSE LET known_characters == KANA_LIST \o known_kanji.value
             IN  IF invert = FALSE
                 THEN Return(ContinueInElseLoop(words, known_characters, << >>))
                 ELSE Return(AppendInElseLoop(words, known_characters, << >>))

filter_out_unknown_kanji(d, words, invert) ==
    LET known_kanji == get_known_kanji_list(d)
    IN  IF known_kanji.raised THEN KeyError
        ELSE LET known_characters == KANA_LIST \o known_kanji.value
             IN  IF invert = FALSE
                 THEN Return(AppendInElseLoop(words, known_characters, << >>))
                 ELSE Return(ContinueInElseLoop(words, known_characters, << >>))

\* filter_out_kana_words with the bodies of its two branches exchanged.
filter_out_kana_words_Swapped(d, words, invert) ==
    LET known_characters == KANA_LIST
    IN  IF invert = FALSE
        THEN Return(AppendInElseLoop(words, known_characters, << >>))
        ELSE Return(ContinueInElseLoop(words, known_characters, << >>))

filter_out_kana_words(d, words, invert) ==
    LET known_characters == KANA_LIST
    IN  IF invert = FALSE
        THEN Return(ContinueInElseLoop(words, known_characters, << >>))
        ELSE Return(AppendInElseLoop(words, known_characters, << >>))

\* ------------------------------------------------------------ filter inputs
taberu == <<"shoku", "be", "ru">>
tabemono == <<"shoku", "be", "butsu">>
nomu == <<"in", "mu">>
suru == <<"su", "ru">>

Words == {taberu, tabemono, nomu, suru, << >>}

WordLists == UNION {[1..n -> Words] : n \in 0..MaxWords}

\* Subject ids of the kanji and of the vocabulary subjects.
KanjiIds == {1, 2}
VocabularyIds == {3}

\* The subject catalogs a download can produce: the complete one, and one that
\* lacks the last subject.
KanjiSubjects == {(1 :> "shoku") @@ (2 :> "in"), (1 :> "shoku")}
VocabularySubjects == {(3 :> taberu), [id \in {} |-> << >>]}

\* The key sequences of an assignment dict: distinct ids in insertion order.
KeySeqs(ids) ==
    {q \in UNION {[1..n -> ids] : n \in 0..Cardinality(ids)} :
        \A a, b \in 1..Len(q) : a # b => q[a] # q[b]}

\* The dictionaries download_all_data builds (and _write_cache saves).
Downloaded ==
    {[k \in {"user_kanji_assignments", "user_vocabulary_assignments",
             "all_kanji_subjects", "all_vocabulary_subjects"} |->
        CASE k = "user_kanji_assignments" -> uk
          [] k = "user_vocabulary_assignments" -> uv
          [] k = "all_kanji_subjects" -> ak
          [] k = "all_vocabulary_subjects" -> av] :
        uk \in KeySeqs(KanjiIds), uv \in KeySeqs(VocabularyIds),
        ak \in KanjiSubjects, av \in VocabularySubjects}

\* self._data_dictionary = {} (no cache file, or an undecodable one)
EmptyDictionary == [k \in {} |-> << >>]

ReconcileIdle ==
    /\ pc = "idle"
    /\ nlt_database_file = << >>
    /\ bccwj_database_file = << >>
    /\ file_pos = 0
    /\ word_count = 0
    /\ list_of_entries = << >>
    /\ list_of_blacklisted_entries = << >>
    /\ entry_index = 0
    /\ list_of_candidates = << >>

\* WaniKaniHandler.__init__: the dictionary is the cache file's content, or
\* empty; the caller holds a word list.
InitFilter ==
    /\ data_dictionary \in Downloaded \cup {EmptyDictionary}
    /\ list_of_words \in WordLists
    /\ called = "none"
    /\ invert_filter = FALSE
    /\ new_list_of_words = << >>
    /\ known_list = << >>
    /\ returned = "none"
    /\ ReconcileIdle

\* download_all_data replaces the four entries of the dictionary by what the
\* API sent and returns None (an API error ends the process in _call_api).
download_all_data ==
    /\ data_dictionary' \in Downloaded
    /\ called' = "download_all_data"
    /\ invert_filter' = FALSE
    /\ new_list_of_words' = << >>
    /\ known_list' = << >>
    /\ returned' = "None"
    /\ UNCHANGED list_of_words
    /\ UNCHANGED reconcile_vars

\* A call of a filter: the result r of the function body is either a raised
\* KeyError or the freshly allocated list new_list_of_words.
FilterCall(name, invert, r) ==
    /\ called' = name
    /\ invert_filter' = invert
    /\ new_list_of_words' = r.value
    /\ known_list' = << >>
    /\ returned' = IF r.raised THEN "KeyError" ELSE "new_list_of_words"
    /\ UNCHANGED <<data_dictionary, list_of_words>>
    /\ UNCHANGED reconcile_vars

\* A call of get_known_kanji_list or get_known_vocabulary_list: the result r
\* is either a raised KeyError or the freshly allocated list known_list.
KnownListCall(name, r) ==
    /\ called' = name
    /\ invert_filter' = FALSE
    /\ new_list_of_words' = << >>
    /\ known_list' = r.value
    /\ returned' = IF r.raised THEN "KeyError" ELSE "known_list"
    /\ UNCHANGED <<data_dictionary, list_of_words>>
    /\ UNCHANGED reconcile_vars

call_get_known_kanji_list ==
    KnownListCall("get_known_kanji_list", get_known_kanji_list(data_dictionary))

call_get_known_vocabulary_list ==
    KnownListCall("get_known_vocabulary_list",
                  get_known_vocabulary_list(data_dictionary))

call_filter_out_known_words ==
    \E invert \in BOOLEAN :
        FilterCall("filter_out_known_words", invert,
                   filter_out_known_words(data_dictionary, list_of_words, invert))

call_filter_out_unknown_kanji ==
    \E invert \in BOOLEAN :
        FilterCall("filter_out_unknown_kanji", invert,
                   filter_out_unknown_kanji(data_dictionary, list_of_words, invert))

call_filter_out_kana_words ==
    \E invert \in BOOLEAN :
        FilterCall("filter_out_kana_words", invert,
                   filter_out_kana_words(data_dictionary, list_of_words, invert))

NextFilter ==
    \/ download_all_data
    \/ call_get_known_kanji_list
    \/ call_get_known_vocabulary_list
    \/ call_filter_out_known_words
    \/ call_filter_out_unknown_kanji
    \/ call_filter_out_kana_words

SpecFilter == InitFilter /\ [][NextFilter]_vars

\* ======================================================= reconciler inputs
benkyou == <<"ben", "kyou">>
benkyousuru == <<"ben", "kyou", "su", "ru">>
tabesuru == <<"shoku", "be", "su", "ru">>
inu == <<"ken">>
meishi == <<"mei", "shi">>
doushi == <<"dou", "shi">>

\* Lines of the NLT file after line.split(','): lemma, type, reading.
NltLines ==
    { <<benkyousuru, doushi, <<"be", "n", "su", "ru">> >>,
      <<benkyou, meishi, <<"be", "n">> >>,
      <<SURU, doushi, <<"su", "ru">> >>,
      <<tabesuru, doushi, <<"ta", "be", "su", "ru">> >>,
      <<inu, <<" ", "mei", "shi">>, <<"i", "nu", "\\n">> >>,
      << <<"ha">>, <<"jo", "shi">>, <<"ha">> >>,
      << <<"ken", "*">>, meishi, <<"i", "nu">> >>,
      << <<" ">>, meishi, <<"n">> >> }

\* Lines of the BCCWJ file after line.split('\t'): rank, reading, lemma, type.
BccwjLines ==
    { << <<"1">>, <<"be", "n">>, benkyou, <<"setsu", "bi", "ji", "-", "mei", "shi">> >>,
      << <<"2">>, <<"ta">>, inu, <<"setsu", "bi", "ji">> >>,
      << <<"3">>, <<"i", "nu">>, inu, <<"mei", "shi", "\\n">> >>,
      << <<"4">>, <<"be", "n", "su", "ru">>, benkyousuru, <<"setsu", "bi", "ji", "\\n">> >> }

NltFiles == UNION {[1..n -> NltLines] : n \in 0..MaxNltLines}
BccwjFiles == UNION {[1..n -> BccwjLines] : n \in 0..MaxBccwjLines}

FilterIdle ==
    /\ data_dictionary = EmptyDictionary
    /\ list_of_words = << >>
    /\ called = "none"
    /\ invert_filter = FALSE
    /\ new_list_of_words = << >>
    /\ known_list = << >>
    /\ returned = "none"

\* generate_frequency_list_file is entered: both corpus files exist, nothing
\* is read yet.
InitReconcile ==
    /\ pc = "nlt"
    /\ nlt_database_file \in NltFiles
    /\ bccwj_database_file \in BccwjFiles
    /\ file_pos = 0
    /\ word_count = 0
    /\ list_of_entries = << >>
    /\ list_of_blacklisted_entries = << >>
    /\ entry_index = 0
    /\ list_of_candidates = << >>
    /\ FilterIdle

\* "for symbol in _BLACKLISTED_SYMBOLS: if symbol in word_lemma: break":
\* TRUE when the loop breaks.
SymbolLoopBreaks(word_lemma) ==
    \E n \in 1..Len(_BLACKLISTED_SYMBOLS) : StrIn(_BLACKLISTED_SYMBOLS[n], word_lemma)

\* One iteration of the loop over the NLT file (lines 34-51).
NltLine ==
    /\ pc = "nlt"
    /\ file_pos < Len(nlt_database_file)
    /\ LET data == nlt_database_file[file_pos + 1]
           word_lemma == Strip(data[1])
           word_type == Strip(data[2])
           word_reading == Strip(data[3])
       IN  IF In(word_type, _NLT_BLACKLISTED_WORD_TYPES) \/ word_lemma = << >>
           THEN /\ file_pos' = file_pos + 1
                /\ UNCHANGED <<pc, word_count, list_of_entries>>
           ELSE LET kept == ~SymbolLoopBreaks(word_lemma)
                    count == IF kept THEN word_count + 1 ELSE word_count
                IN  /\ list_of_entries' =
                          IF kept
                          THEN Append(list_of_entries, <<word_lemma, word_reading>>)
                          ELSE list_of_entries
                    /\ IF count = NLT_WORD_CAP
                       THEN /\ pc' = "bccwj"
                            /\ file_pos' = 0
                            /\ word_count' = 0
                       ELSE /\ pc' = pc
                            /\ file_pos' = file_pos + 1
                            /\ word_count' = count
    /\ UNCHANGED <<nlt_database_file, bccwj_database_file,
                   list_of_blacklisted_entries, entry_index, list_of_candidates>>
    /\ UNCHANGED filter_vars

\* The NLT file is exhausted; the BCCWJ file is opened (lines 54-56).
NltEnd ==
    /\ pc = "nlt"
    /\ file_pos = Len(nlt_database_file)
    /\ pc' = "bccwj"
    /\ file_pos' = 0
    /\ word_count' = 0
    /\ UNCHANGED <<nlt_database_file, bccwj_database_file, list_of_entries,
                   list_of_blacklisted_entries, entry_index, list_of_candidates>>
    /\ UNCHANGED filter_vars

\* "for blacklisted_type in _BCCWJ_BLACKLISTED_WORD_TYPES: if blacklisted_type
\* in word_type: append; break": TRUE when the entry is appended.
BlacklistedTypeLoopAppends(word_type) ==
    \E n \in 1..Len(_BCCWJ_BLACKLISTED_WORD_TYPES) :
        StrIn(_BCCWJ_BLACKLISTED_WORD_TYPES[n], word_type)

\* One iteration of the loop over the BCCWJ file (lines 57-70).
BccwjLine ==
    /\ pc = "bccwj"
    /\ file_pos < Len(bccwj_database_file)
    /\ LET data == bccwj_database_file[file_pos + 1]
           word_lemma == Strip(data[3])
           word_type == Strip(data[4])
           word_reading == Strip(data[2])
       IN  /\ list_of_blacklisted_entries' =
                 IF BlacklistedTypeLoopAppends(word_type)
                 THEN Append(list_of_blacklisted_entries, <<word_lemma, word_reading>>)
                 ELSE list_of_blacklisted_entries
           /\ IF word_count + 1 = BCCWJ_WORD_CAP
              THEN /\ pc' = "merge"
                   /\ file_pos' = 0
                   /\ word_count' = word_count + 1
              ELSE /\ pc' = pc
                   /\ file_pos' = file_pos + 1
                   /\ word_count' = word_count + 1
    /\ UNCHANGED <<nlt_database_file, bccwj_database_file, list_of_entries,
                   entry_index, list_of_candidates>>
    /\ UNCHANGED filter_vars

\* The BCCWJ file is exhausted; the merge loop starts (line 73).
BccwjEnd ==
    /\ pc = "bccwj"
    /\ file_pos = Len(bccwj_database_file)
    /\ pc' = "merge"
    /\ file_pos' = 0
    /\ UNCHANGED <<nlt_database_file, bccwj_database_file, word_count,
                   list_of_entries, list_of_blacklisted_entries, entry_index,
                   list_of_candidates>>
    /\ UNCHANGED filter_vars

\* "for blacklisted_entry in list_of_blacklisted_entries: if word_lemma ==
\* blacklisted_entry[0] and entry[1] == blacklisted_entry[1]: break": TRUE
\* when the loop breaks.
\* BlacklistLoopBreaks comparing the lemma only.
BlacklistLoopBreaks_LemmaOnly(entry, blacklisted_entries) ==
    \E n \in 1..Len(blacklisted_entries) : entry[1] = blacklisted_entries[n][1]

BlacklistLoopBreaks(entry, blacklisted_entries) ==
    \E n \in 1..Len(blacklisted_entries) :
        /\ entry[1] = blacklisted_entries[n][1]
        /\ entry[2] = blacklisted_entries[n][2]

\* Lines 82-83: the lemma without the suru of a suru verb.
\* RemoveSuru without the test word_lemma != suru.
RemoveSuru_NoGuard(word_lemma) ==
    IF LastTwo(word_lemma) = SURU THEN DropLastTwo(word_lemma) ELSE word_lemma

\* RemoveSuru that leaves every lemma as it is.
RemoveSuru_Never(word_lemma) == word_lemma

RemoveSuru(word_lemma) ==
    IF word_lemma # SURU /\ LastTwo(word_lemma) = SURU
    THEN DropLastTwo(word_lemma)
    ELSE word_lemma

\* Lines 85-86: append if not a duplicate.
\* AppendIfNew without the duplicate test.
AppendIfNew_Always(words, word_lemma) == Append(words, word_lemma)

\* AppendIfNew with insert(0, word_lemma) for append.
AppendIfNew_Prepend(words, word_lemma) ==
    IF ~In(word_lemma, words) THEN <<word_lemma>> \o words ELSE words

AppendIfNew(words, word_lemma) ==
    IF ~In(word_lemma, words) THEN Append(words, word_lemma) ELSE words

\* The body of the merge loop for one entry (lines 75-86).
MergeBody(entry, blacklisted_entries, words) ==
    IF BlacklistLoopBreaks(entry, blacklisted_entries)
    THEN words
    ELSE AppendIfNew(words, RemoveSuru(entry[1]))

\* One iteration of the merge loop (lines 74-86).
MergeEntry ==
    /\ pc = "merge"
    /\ entry_index < Len(list_of_entries)
    /\ list_of_candidates' =
           MergeBody(list_of_entries[entry_index + 1],
                     list_of_blacklisted_entries, list_of_candidates)
    /\ entry_index' = entry_index + 1
    /\ UNCHANGED <<pc, nlt_database_file, bccwj_database_file, file_pos,
                   word_count, list_of_entries, list_of_blacklisted_entries>>
    /\ UNCHANGED filter_vars

\* The merge loop is over; the candidate list goes to the JPDB lookup (line 88).
MergeEnd ==
    /\ pc = "merge"
    /\ entry_index = Len(list_of_entries)
    /\ pc' = "jpdb"
    /\ UNCHANGED <<nlt_database_file, bccwj_database_file, file_pos, word_count,
                   list_of_entries, list_of_blacklisted_entries, entry_index,
                   list_of_candidates>>
    /\ UNCHANGED filter_vars

NextReconcile ==
    \/ NltLine
    \/ NltEnd
    \/ BccwjLine
    \/ BccwjEnd
    \/ MergeEntry
    \/ MergeEnd

SpecReconcile == InitReconcile /\ [][NextReconcile]_vars

\* ======================================================== filter properties
Set(seq) == {seq[n] : n \in 1..Len(seq)}

Count(seq, x) == Cardinality({n \in 1..Len(seq) : seq[n] = x})

RECURSIVE IsSubsequence(_, _)
IsSubsequence(a, b) ==
    IF a = << >> THEN TRUE
    ELSE IF b = << >> THEN FALSE
    ELSE IF Head(a) = Head(b) THEN IsSubsequence(Tail(a), Tail(b))
    ELSE IsSubsequence(a, Tail(b))

\* The set of known kanji of a dictionary whose kanji data are consistent.
KnownKanjiSet(d) ==
    {d["all_kanji_subjects"][id] : id \in Set(d["user_kanji_assignments"])}

\* Every character of the word is kana or in K.
FullyKnown(word, K) == \A n \in 1..Len(word) : word[n] \in Set(KANA_LIST) \cup K

\* The assignment key is present and every assignment id is in the catalog.
Consistent(d, assignments, subjects) ==
    /\ assignments \in DOMAIN d
    /\ subjects \in DOMAIN d
    /\ Set(d[assignments]) \subseteq DOMAIN d[subjects]

\* This step is a call of the method name.
CallStep(name) == vars' # vars /\ called' = name

\* This step is a call of one of the three filters.
FilterStep == \E name \in {"filter_out_known_words", "filter_out_unknown_kanji",
                           "filter_out_kana_words"} : CallStep(name)

FilterResult(name, invert) ==
    CASE name = "filter_out_known_words" ->
            filter_out_known_words(data_dictionary, list_of_words, invert)
      [] name = "filter_out_unknown_kanji" ->
            filter_out_unknown_kanji(data_dictionary, list_of_words, invert)
      [] name = "filter_out_kana_words" ->
            filter_out_kana_words(data_dictionary, list_of_words, invert)

\* C1 (as claimed): filter_out_unknown_kanji with invert_filter = FALSE returns
\* exactly the words that are not fully known, and with invert_filter = TRUE
\* exactly the fully known ones.
C1_AsClaimed ==
    [][(CallStep("filter_out_unknown_kanji") /\ returned' = "new_list_of_words")
        => new_list_of_words' =
             SelectSeq(list_of_words,
                       LAMBDA w : FullyKnown(w, KnownKanjiSet(data_dictionary))
                                  = invert_filter')]_vars

\* C1 (amended): filter_out_unknown_kanji with invert_filter = FALSE returns
\* exactly the fully known words of the list (every character kana or a known
\* kanji), and with invert_filter = TRUE exactly the words that are not fully
\* known; both in list order.
C1_FilterKeepsFullyKnown ==
    [][(CallStep("filter_out_unknown_kanji") /\ returned' = "new_list_of_words")
        => new_list_of_words' =
             SelectSeq(list_of_words,
                       LAMBDA w : FullyKnown(w, KnownKanjiSet(data_dictionary))
                                  # invert_filter')]_vars

\* K = {shoku}, W = [taberu, tabemono, nomu], invert_filter = FALSE: the call
\* returned [taberu].
C1_Witness ==
    /\ called = "filter_out_unknown_kanji"
    /\ invert_filter = FALSE
    /\ returned = "new_list_of_words"
    /\ data_dictionary # EmptyDictionary
    /\ data_dictionary["user_kanji_assignments"] = <<1>>
    /\ data_dictionary["all_kanji_subjects"][1] = "shoku"
    /\ list_of_words = <<taberu, tabemono, nomu>>
    /\ new_list_of_words = <<taberu>>

\* C2 (as claimed): with no known kanji, filter_out_unknown_kanji returns what
\* filter_out_kana_words returns for the same list and the same invert_filter.
C2_AsClaimed ==
    [][(/\ CallStep("filter_out_unknown_kanji")
        /\ returned' = "new_list_of_words"
        /\ data_dictionary["user_kanji_assignments"] = << >>)
        => new_list_of_words' =
             filter_out_kana_words(data_dictionary, list_of_words,
                                   invert_filter').value]_vars

\* C2 (amended): with no known kanji, filter_out_unknown_kanji returns what
\* filter_out_kana_words returns for the same list and the opposite
\* invert_filter.
C2_KanjiFilterIsInvertedKanaFilter ==
    [][(/\ CallStep("filter_out_unknown_kanji")
        /\ returned' = "new_list_of_words"
        /\ data_dictionary["user_kanji_assignments"] = << >>)
        => new_list_of_words' =
             filter_out_kana_words(data_dictionary, list_of_words,
                                   ~invert_filter').value]_vars

\* No known kanji, a list with a kana word and a kanji word: the call kept the
\* kana word only.
C2_Witness ==
    /\ called = "filter_out_unknown_kanji"
    /\ invert_filter = FALSE
    /\ returned = "new_list_of_words"
    /\ data_dictionary # EmptyDictionary
    /\ data_dictionary["user_kanji_assignments"] = << >>
    /\ list_of_words = <<nomu, suru>>
    /\ new_list_of_words = <<suru>>

\* C3: for each of the three filters, the list returned by a call and the list
\* the same filter returns for the opposite invert_filter are disjoint, and
\* together they hold exactly the words of the input list.
C3_InvertIsComplement ==
    [][(FilterStep /\ returned' = "new_list_of_words")
        => LET other == FilterResult(called', ~invert_filter').value
           IN  /\ Set(new_list_of_words') \cap Set(other) = {}
               /\ Set(new_list_of_words') \cup Set(other) = Set(list_of_words)]_vars

\* A list with the empty word and a repeated word went through the
\* known-character filter, which kept the empty word only.
C3_Witness ==
    /\ called = "filter_out_unknown_kanji"
    /\ invert_filter = FALSE
    /\ returned = "new_list_of_words"
    /\ list_of_words = <<nomu, << >>, nomu>>
    /\ new_list_of_words = << << >> >>

\* C9: a filter call leaves the caller's list unchanged and, unless it raises,
\* returns the list it allocated, which is a subsequence of the caller's list
\* holding every occurrence of each word it keeps.
C9_SubsequenceAndFrame ==
    [][FilterStep
        => /\ list_of_words' = list_of_words
           /\ returned' \in {"new_list_of_words", "KeyError"}
           /\ returned' = "new_list_of_words" =>
                /\ IsSubsequence(new_list_of_words', list_of_words)
                /\ \A w \in Set(new_list_of_words') :
                     Count(new_list_of_words', w) = Count(list_of_words, w)]_vars

\* The known-vocabulary filter returned two of three words, one of them twice.
C9_Witness ==
    /\ called = "filter_out_known_words"
    /\ returned = "new_list_of_words"
    /\ list_of_words = <<nomu, taberu, nomu>>
    /\ new_list_of_words = <<nomu, nomu>>

\* The strings of the catalog for the assignment ids, in assignment order.
Projection(d, assignments, subjects) ==
    [n \in 1..Len(d[assignments]) |-> d[subjects][d[assignments][n]]]

\* C10: get_known_kanji_list and get_known_vocabulary_list return the catalog
\* string of every assignment id, in order; when an assignment id is not in
\* the catalog they raise KeyError and return nothing, and so do
\* filter_out_unknown_kanji and filter_out_known_words.
C10_KnownSetDerivation ==
    [][/\ (CallStep("get_known_kanji_list")
             /\ "user_kanji_assignments" \in DOMAIN data_dictionary)
          => IF Consistent(data_dictionary, "user_kanji_assignments",
                           "all_kanji_subjects")
             THEN /\ returned' = "known_list"
                  /\ known_list' = Projection(data_dictionary,
                        "user_kanji_assignments", "all_kanji_subjects")
             ELSE returned' = "KeyError"
       /\ (CallStep("get_known_vocabulary_list")
             /\ "user_vocabulary_assignments" \in DOMAIN data_dictionary)
          => IF Consistent(data_dictionary, "user_vocabulary_assignments",
                           "all_vocabulary_subjects")
             THEN /\ returned' = "known_list"
                  /\ known_list' = Projection(data_dictionary,
                        "user_vocabulary_assignments", "all_vocabulary_subjects")
             ELSE returned' = "KeyError"
       /\ (/\ CallStep("filter_out_unknown_kanji")
           /\ "user_kanji_assignments" \in DOMAIN data_dictionary
           /\ ~Consistent(data_dictionary, "user_kanji_assignments",
                          "all_kanji_subjects"))
          => returned' = "KeyError"
       /\ (/\ CallStep("filter_out_known_words")
           /\ "user_vocabulary_assignments" \in DOMAIN data_dictionary
           /\ ~Consistent(data_dictionary, "user_vocabulary_assignments",
                          "all_vocabulary_subjects"))
          => returned' = "KeyError"]_vars

\* get_known_kanji_list was called with assignments [1, 2] and a catalog that
\* lacks subject 2, and raised.
C10_Witness ==
    /\ called = "get_known_kanji_list"
    /\ returned = "KeyError"
    /\ data_dictionary # EmptyDictionary
    /\ data_dictionary["user_kanji_assignments"] = <<1, 2>>
    /\ DOMAIN data_dictionary["all_kanji_subjects"] = {1}

\* ==================================================== reconciler properties
tabe == <<"shoku", "be">>

EndsWithSuru(lemma) ==
    /\ Len(lemma) >= 2
    /\ lemma[Len(lemma) - 1] = "su"
    /\ lemma[Len(lemma)] = "ru"

WithoutSuffix(lemma) == [n \in 1..(Len(lemma) - 2) |-> lemma[n]]

\* The lemma without its trailing suru if it ends in suru and is not suru.
Normalized(lemma) ==
    IF EndsWithSuru(lemma) /\ lemma # <<"su", "ru">>
    THEN WithoutSuffix(lemma)
    ELSE lemma

\* The (lemma, reading) pair equals a pair of the exclusion set.
Excluded(entry) == entry \in Set(list_of_blacklisted_entries)

\* The primary entries the merge loop has gone through and not excluded.
Contributing == {i \in 1..entry_index : ~Excluded(list_of_entries[i])}

Merging == pc \in {"merge", "jpdb"}

\* This step is an iteration of the merge loop.
MergeStep == pc = "merge" /\ entry_index' = entry_index + 1

NoDuplicates(seq) == \A a, b \in 1..Len(seq) : a # b => seq[a] # seq[b]

\* The elements of seq that no earlier element equals, in order.
FirstOccurrences(seq) ==
    LET first == SelectSeq([n \in 1..Len(seq) |-> n],
                           LAMBDA n : \A m \in 1..(n - 1) : seq[m] # seq[n])
    IN  [k \in 1..Len(first) |-> seq[first[k]]]

\* The normalized lemmas of the contributing entries, in entry order.
ContributedLemmas ==
    LET idx == SelectSeq([i \in 1..entry_index |-> i],
                         LAMBDA i : ~Excluded(list_of_entries[i]))
    IN  [k \in 1..Len(idx) |-> Normalized(list_of_entries[idx[k]][1])]

\* The first contributing entry whose normalized lemma is word.
FirstContributor(word) ==
    CHOOSE i \in Contributing :
        /\ Normalized(list_of_entries[i][1]) = word
        /\ \A j \in Contributing :
             Normalized(list_of_entries[j][1]) = word => i <= j

\* The entries of the NLT lines that survive the type, empty-lemma and symbol
\* tests, in file order, up to the cap.
Survivors ==
    LET alive == SelectSeq(nlt_database_file,
                    LAMBDA line :
                        /\ Strip(line[2]) \notin Set(_NLT_BLACKLISTED_WORD_TYPES)
                        /\ Strip(line[1]) # << >>
                        /\ \A n \in 1..Len(Strip(line[1])) :
                             <<Strip(line[1])[n]>> \notin Set(_BLACKLISTED_SYMBOLS))
        kept == IF Len(alive) > NLT_WORD_CAP
                THEN SubSeq(alive, 1, NLT_WORD_CAP) ELSE alive
    IN  [n \in 1..Len(kept) |-> <<Strip(kept[n][1]), Strip(kept[n][3])>>]

\* C4: after every iteration of the merge loop (and in every other state) the
\* candidate list has pairwise distinct elements.
C4_NoDuplicateCandidates == NoDuplicates(list_of_candidates)

\* benkyousuru and, after it, benkyou both went through the merge loop
\* unexcluded, and the candidate list holds benkyou once.
C4_Witness ==
    /\ pc = "jpdb"
    /\ \E i, j \in Contributing :
         /\ i < j
         /\ list_of_entries[i][1] = benkyousuru
         /\ list_of_entries[j][1] = benkyou
    /\ Count(list_of_candidates, benkyou) = 1

\* C5: the primary set is the surviving NLT entries in file order, and the
\* candidate list is the first occurrences of the normalized lemmas of the
\* non-excluded primary entries gone through so far, in entry order; so of two
\* candidates the earlier one has the earlier first contributing entry.
C5_ScanOrder ==
    Merging =>
      /\ list_of_entries = Survivors
      /\ list_of_candidates = FirstOccurrences(ContributedLemmas)
      /\ \A a, b \in 1..Len(list_of_candidates) :
           a < b => FirstContributor(list_of_candidates[a])
                      < FirstContributor(list_of_candidates[b])

\* Three entries were merged, the last one a duplicate of the first after
\* normalization, and two candidates came out in entry order.
C5_Witness ==
    /\ pc = "jpdb"
    /\ Len(list_of_entries) = 3
    /\ Contributing = {1, 2, 3}
    /\ list_of_entries[1][1] = benkyousuru
    /\ list_of_entries[2][1] = inu
    /\ list_of_entries[3][1] = benkyou
    /\ list_of_candidates = <<benkyou, inu>>

\* C6 (as claimed): a non-excluded entry with lemma tabesuru contributes
\* tabesuru, one with lemma benkyousuru contributes benkyou, one with lemma
\* suru contributes suru.
C6_AsClaimed ==
    Merging =>
      \A i \in Contributing :
        /\ list_of_entries[i][1] = tabesuru => In(tabesuru, list_of_candidates)
        /\ list_of_entries[i][1] = benkyousuru => In(benkyou, list_of_candidates)
        /\ list_of_entries[i][1] = SURU => In(SURU, list_of_candidates)

\* C6 (amended): a non-excluded entry with lemma tabesuru is stripped and
\* contributes tabe, one with lemma benkyousuru is stripped and contributes
\* benkyou, one with lemma suru contributes suru; tabesuru and benkyousuru
\* themselves are not emitted.
C6_SuffixNormalization ==
    Merging =>
      /\ \A i \in Contributing :
           /\ list_of_entries[i][1] = tabesuru => In(tabe, list_of_candidates)
           /\ list_of_entries[i][1] = benkyousuru => In(benkyou, list_of_candidates)
           /\ list_of_entries[i][1] = SURU => In(SURU, list_of_candidates)
      /\ ~In(tabesuru, list_of_candidates)
      /\ ~In(benkyousuru, list_of_candidates)

\* The three lemmas of the claim went through the merge loop unexcluded.
C6_Witness ==
    /\ pc = "jpdb"
    /\ Contributing = {1, 2, 3}
    /\ list_of_entries[1][1] = tabesuru
    /\ list_of_entries[2][1] = benkyousuru
    /\ list_of_entries[3][1] = SURU
    /\ list_of_candidates = <<tabe, benkyou, SURU>>

\* C7: an iteration of the merge loop over a non-excluded entry emits (appends,
\* unless it is already there) the lemma without its trailing suru if the
\* lemma ends in suru and is not suru, and the lemma itself otherwise; no
\* candidate is empty; and the entries (benkyousuru, inu) without exclusions
\* give the candidates [benkyou, inu].
C7_EmittedLemma ==
    [][/\ (MergeStep /\ ~Excluded(list_of_entries[entry_index + 1]))
          => LET lemma == list_of_entries[entry_index + 1][1]
                 word == IF EndsWithSuru(lemma) /\ lemma # <<"su", "ru">>
                         THEN WithoutSuffix(lemma) ELSE lemma
             IN  /\ word # << >>
                 /\ In(word, list_of_candidates')
                 /\ \/ list_of_candidates' = list_of_candidates
                    \/ list_of_candidates' = Append(list_of_candidates, word)
       /\ \A n \in 1..Len(list_of_candidates') : list_of_candidates'[n] # << >>
       /\ (/\ pc' = "jpdb"
           /\ Len(list_of_entries) = 2
           /\ list_of_entries[1][1] = benkyousuru
           /\ list_of_entries[2][1] = inu
           /\ Contributing = {1, 2})
          => list_of_candidates' = <<benkyou, inu>>]_vars

\* The scenario of the claim ran to the end of the merge loop.
C7_Witness ==
    /\ pc = "jpdb"
    /\ Len(list_of_entries) = 2
    /\ list_of_entries[1][1] = benkyousuru
    /\ list_of_entries[2][1] = inu
    /\ Contributing = {1, 2}
    /\ list_of_candidates = <<benkyou, inu>>

\* The (lemma, reading) pairs of the BCCWJ lines whose type contains a
\* blacklisted type.
ExclusionSet ==
    {<<Strip(line[3]), Strip(line[2])>> :
        line \in {l \in Set(bccwj_database_file) :
                    \E t \in Set(_BCCWJ_BLACKLISTED_WORD_TYPES) :
                        StrIn(t, Strip(l[4]))}}

\* C8: in the merge loop the exclusion set is the pairs of the blacklisted
\* BCCWJ lines; an iteration over an entry whose pre-strip (lemma, reading)
\* pair is in the set leaves the candidate list as it is, and an iteration
\* over an entry whose pair is not in the set emits its normalized lemma.
C8_ExclusionByExactPair ==
    [][MergeStep
        => LET entry == list_of_entries[entry_index + 1]
           IN  /\ Set(list_of_blacklisted_entries) = ExclusionSet
               /\ IF \E x \in ExclusionSet : x[1] = entry[1] /\ x[2] = entry[2]
                  THEN list_of_candidates' = list_of_candidates
                  ELSE In(Normalized(entry[1]), list_of_candidates')]_vars

\* benkyou (excluded by its pair), benkyousuru (not excluded, although it
\* strips to the excluded lemma benkyou) and inu (not excluded, its reading
\* differs from the excluded pair's) went through the merge loop.
C8_Witness ==
    /\ pc = "jpdb"
    /\ Len(list_of_entries) = 3
    /\ list_of_entries[1] = <<benkyou, <<"be", "n">> >>
    /\ list_of_entries[2][1] = benkyousuru
    /\ list_of_entries[3] = <<inu, <<"i", "nu">> >>
    /\ Set(list_of_blacklisted_entries) =
         { <<benkyou, <<"be", "n">> >>, <<inu, <<"ta">> >> }
    /\ list_of_candidates = <<benkyou, inu>>

====
